---- MODULE Spec2Model ----
(***************************************************************************)
(* Hermie environmental monitor: the server's sensor reader loop, shared  *)
(* state, health and device-control endpoints (api.py), the alert          *)
(* evaluator (common.py) and the client's cooldown-gated buzzer loop       *)
(* (client.py).                                                            *)
(*                                                                         *)
(* Specifications.  Spec: the reader thread statement by statement with    *)
(* GET /sensor and GET /health; SpecLive: Spec with a fairly scheduled     *)
(* reader; SpecControl: control requests handled one after another         *)
(* between whole poll cycles; SpecAlert: calls of check_alert; SpecClient: *)
(* the client loop.                                                        *)
(*                                                                         *)
(* Numbers.  Temperatures and humidities are Python floats.  They are      *)
(* modelled as integers counting 1/10000 of a degree (or of a percent), so *)
(* that round(x, 2) and the "%.1f" of the alert messages are real          *)
(* roundings: 85.0 F is 850000, round(x, 2) is the nearest multiple of     *)
(* 100.  Optional values (Python's None) are sequences: None is <<>> and a *)
(* present value v is <<v>>.                                               *)
(***************************************************************************)
EXTENDS Integers, Sequences, FiniteSets, TLC

VARIABLES
    \* ---- alert evaluator harness (a call of check_alert) ----
    arg_temp_f,      \* argument temp_f of the call
    arg_humidity,    \* argument humidity of the call
    ret,             \* the returned tuple, None before the call returns
    \* ---- decision harness (the client's decision on two bodies) ----
    pair,            \* two fetched bodies, the time of the iteration, last_buzz_time
    verdicts,        \* the decision for each body, None before it is taken
    \* ---- server (api.py) ----
    state,           \* the shared dict `state`
    sensor_ok,       \* init_sensor() returned a sensor (FALSE: it returned None)
    pc,              \* position of the reader thread in reader_loop
    attempt,         \* loop variable of the retry loop
    rd_temp_c,       \* local temp_c of reader_loop (None: not assigned yet)
    rd_humidity,     \* local humidity of reader_loop
    exc,             \* the exception propagating to `except Exception`
    cycle,           \* number of poll cycles begun; the clock of the timestamps
    resp,            \* body of the GET /sensor answered in the last step, else None
    relay,           \* output level of each device's relay pin (TRUE: GPIO.HIGH)
    reply,           \* the /health or /control answer given in the last step, else None
    handlers,        \* per request thread, where its set_device stands and its command
    \* ---- history of the current poll cycle (not program state) ----
    before,          \* the reading fields of `state` when the cycle began
    lastGood,        \* the reading stored by the last successful cycle
    log,             \* outcome of each read attempt of the cycle, in order
    sleeps,          \* number of 1-second retry sleeps of the cycle
    result,          \* "none" while the cycle runs, then "Success" or "Failure"
    failStreak,      \* number of consecutive failed cycles just completed
    views,           \* what a consistent snapshot could show when resp was built
    readAt,          \* the attempt of this cycle that read temp_c, and humidity;
                     \* lone: a temp_c of this cycle was left without its humidity
    lastCmd,         \* per device, the last command carried out (TRUE: on), off at startup
    \* ---- client (client.py) ----
    headless,        \* HEADLESS_MODE: no LCD and no LED indicators
    clock,           \* time.time() at the top of the next iteration of main's loop
    last_buzz_time,  \* global last_buzz_time
    last_log_time,   \* global last_log_time
    led,             \* output level of each device's LED pin
    \* ---- history of the client loop (not program state) ----
    last,            \* what the last iteration did
    onAt,            \* when buzzer.on() was last called, None if never
    prevOnAt,        \* when buzzer.on() was called the time before that
    slowFetches,     \* fetches that took a second so far
    failedFetches,   \* fetches that failed so far
    quietPolls       \* fetched bodies that raised no alert so far

evalVars == <<arg_temp_f, arg_humidity, ret, pair, verdicts>>

serverVars == <<state, sensor_ok, pc, attempt, rd_temp_c, rd_humidity, exc, cycle, resp,
                relay, reply, handlers, before, lastGood, log, sleeps, result,
                failStreak, views, readAt, lastCmd>>

clientVars == <<headless, clock, last_buzz_time, last_log_time, led, last, onAt,
                prevOnAt, slowFetches, failedFetches, quietPolls>>

vars == <<evalVars, serverVars, clientVars>>

None == <<>>
Some(v) == <<v>>

\* ------------------------------------------------------------------------
\* Configuration (common.py), in 1/10000 units
\* ------------------------------------------------------------------------
TEMP_OFFSET_F == -10000
TEMP_HIGH_THRESHOLD == 850000
TEMP_LOW_THRESHOLD == 750000
HUMIDITY_LOW_THRESHOLD == 750000
HUMIDITY_HIGH_THRESHOLD == 950000

\* ------------------------------------------------------------------------
\* Float helpers
\* ------------------------------------------------------------------------
\* x rounded to the nearest multiple of q, ties to the even multiple
\* (Python's round() and "%.nf" both round half to even); x >= 0.
RoundTo(x, q) ==
    LET lo == (x \div q) * q
        r  == x - lo
    IN  IF 2 * r < q THEN lo
        ELSE IF 2 * r > q THEN lo + q
        ELSE IF (lo \div q) % 2 = 0 THEN lo ELSE lo + q

\* round(x, 2)
Round2(x) == RoundTo(x, 100)

\* f"{x:.1f}"
Fmt1(x) == RoundTo(x, 1000)

\* ------------------------------------------------------------------------
\* common.check_alert
\* ------------------------------------------------------------------------
NoAlert == [alert_triggered |-> FALSE, alert_message |-> None, lcd_alert |-> None]

\* The f-string messages: their fixed text, the formatted value and the
\* threshold they quote.
Message(text, value, threshold) ==
    [text |-> text, value |-> Fmt1(value), threshold |-> threshold]

Alert(msg, lcd) ==
    [alert_triggered |-> TRUE, alert_message |-> Some(msg), lcd_alert |-> Some(lcd)]

\* Mutant: the humidity conditions are tested before the temperature ones.
check_alert_humidity_first(temp_f, humidity) ==
    IF temp_f = None THEN NoAlert
    ELSE IF humidity # None /\ humidity[1] > HUMIDITY_HIGH_THRESHOLD THEN
        Alert(Message("Humidity exceeds", humidity[1], HUMIDITY_HIGH_THRESHOLD),
              "Alert: High hum")
    ELSE IF humidity # None /\ humidity[1] < HUMIDITY_LOW_THRESHOLD THEN
        Alert(Message("Humidity below", humidity[1], HUMIDITY_LOW_THRESHOLD),
              "Alert: Low humid")
    ELSE IF temp_f[1] > TEMP_HIGH_THRESHOLD THEN
        Alert(Message("Temperature exceeds", temp_f[1], TEMP_HIGH_THRESHOLD),
              "Alert: High temp")
    ELSE IF temp_f[1] < TEMP_LOW_THRESHOLD THEN
        Alert(Message("Temperature below", temp_f[1], TEMP_LOW_THRESHOLD),
              "Alert: Low temp")
    ELSE NoAlert

\* Mutant: a missing temperature skips only the temperature conditions.
check_alert_none_falls_through(temp_f, humidity) ==
    IF temp_f # None /\ temp_f[1] > TEMP_HIGH_THRESHOLD THEN
        Alert(Message("Temperature exceeds", temp_f[1], TEMP_HIGH_THRESHOLD),
              "Alert: High temp")
    ELSE IF temp_f # None /\ temp_f[1] < TEMP_LOW_THRESHOLD THEN
        Alert(Message("Temperature below", temp_f[1], TEMP_LOW_THRESHOLD),
              "Alert: Low temp")
    ELSE IF humidity # None /\ humidity[1] > HUMIDITY_HIGH_THRESHOLD THEN
        Alert(Message("Humidity exceeds", humidity[1], HUMIDITY_HIGH_THRESHOLD),
              "Alert: High hum")
    ELSE IF humidity # None /\ humidity[1] < HUMIDITY_LOW_THRESHOLD THEN
        Alert(Message("Humidity below", humidity[1], HUMIDITY_LOW_THRESHOLD),
              "Alert: Low humid")
    ELSE NoAlert

\* Mutant: the humidity is compared with the temperature thresholds.
check_alert_wrong_thresholds(temp_f, humidity) ==
    IF temp_f = None THEN NoAlert
    ELSE IF temp_f[1] > TEMP_HIGH_THRESHOLD THEN
        Alert(Message("Temperature exceeds", temp_f[1], TEMP_HIGH_THRESHOLD),
              "Alert: High temp")
    ELSE IF temp_f[1] < TEMP_LOW_THRESHOLD THEN
        Alert(Message("Temperature below", temp_f[1], TEMP_LOW_THRESHOLD),
              "Alert: Low temp")
    ELSE IF humidity # None /\ humidity[1] > TEMP_HIGH_THRESHOLD THEN
        Alert(Message("Humidity exceeds", humidity[1], TEMP_HIGH_THRESHOLD),
              "Alert: High hum")
    ELSE IF humidity # None /\ humidity[1] < TEMP_LOW_THRESHOLD THEN
        Alert(Message("Humidity below", humidity[1], TEMP_LOW_THRESHOLD),
              "Alert: Low humid")
    ELSE NoAlert

\* Mutant: the humidity comparisons include the thresholds themselves.
check_alert_inclusive_humidity(temp_f, humidity) ==
    IF temp_f = None THEN NoAlert
    ELSE IF temp_f[1] > TEMP_HIGH_THRESHOLD THEN
        Alert(Message("Temperature exceeds", temp_f[1], TEMP_HIGH_THRESHOLD),
              "Alert: High temp")
    ELSE IF temp_f[1] < TEMP_LOW_THRESHOLD THEN
        Alert(Message("Temperature below", temp_f[1], TEMP_LOW_THRESHOLD),
              "Alert: Low temp")
    ELSE IF humidity # None /\ humidity[1] >= HUMIDITY_HIGH_THRESHOLD THEN
        Alert(Message("Humidity exceeds", humidity[1], HUMIDITY_HIGH_THRESHOLD),
              "Alert: High hum")
    ELSE IF humidity # None /\ humidity[1] <= HUMIDITY_LOW_THRESHOLD THEN
        Alert(Message("Humidity below", humidity[1], HUMIDITY_LOW_THRESHOLD),
              "Alert: Low humid")
    ELSE NoAlert

check_alert(temp_f, humidity) ==
    IF temp_f = None THEN NoAlert
    ELSE IF temp_f[1] > TEMP_HIGH_THRESHOLD THEN
        Alert(Message("Temperature exceeds", temp_f[1], TEMP_HIGH_THRESHOLD),
              "Alert: High temp")
    ELSE IF temp_f[1] < TEMP_LOW_THRESHOLD THEN
        Alert(Message("Temperature below", temp_f[1], TEMP_LOW_THRESHOLD),
              "Alert: Low temp")
    ELSE IF humidity # None /\ humidity[1] > HUMIDITY_HIGH_THRESHOLD THEN
        Alert(Message("Humidity exceeds", humidity[1], HUMIDITY_HIGH_THRESHOLD),
              "Alert: High hum")
    ELSE IF humidity # None /\ humidity[1] < HUMIDITY_LOW_THRESHOLD THEN
        Alert(Message("Humidity below", humidity[1], HUMIDITY_LOW_THRESHOLD),
              "Alert: Low humid")
    ELSE NoAlert

\* ------------------------------------------------------------------------
\* Bounds and inputs
\* ------------------------------------------------------------------------
\* Poll cycles the reader thread runs.
MaxCycles == 3

\* Values sensor.temperature returns (Celsius): 20.0 (67.0 F, low alert),
\* 25.002 (76.0036 F, in range) and 30.002 (85.0036 F: above the high
\* threshold, stored as 85.0).
TempCInputs == {200000, 250020, 300020}

\* Values sensor.relative_humidity returns: 50.0 (low alert), 80.003 (in
\* range) and 95.004 (above the high threshold, stored as 95.0).
HumidityInputs == {500000, 800030, 950040}

\* ------------------------------------------------------------------------
\* api.py: shared state
\* ------------------------------------------------------------------------
DEVICES == {"heat", "pump"}

\* Mutant: one attempt more.
max_retries_four == 3 + 1

\* max_retries = 3
max_retries == 3

\* Fields of `state` written by the reader thread.
ReadingFields == {"temperature_c", "temperature_f", "humidity", "timestamp_iso",
                  "error", "last_read_ok", "alert"}

ReadingPart(s) == [f \in ReadingFields |-> s[f]]

\* The measurement itself: what a failed cycle must leave alone.
ValueFields == {"temperature_c", "temperature_f", "humidity", "timestamp_iso",
                "alert"}

ValuePart(s) == [f \in ValueFields |-> s[f]]

\* state_key = f"{device}_on"
state_key(device) == device \o "_on"

\* The dict literal of the module-level `state = {...}`.
StateLiteral ==
    [temperature_c |-> None, temperature_f |-> None, humidity |-> None,
     timestamp_iso |-> None, error |-> None, last_read_ok |-> FALSE,
     alert |-> None]

\* `state` once the loop over DEVICES has added each `{device}_on` key.
InitialState ==
    [f \in DOMAIN StateLiteral \cup {state_key(d) : d \in DEVICES} |->
        IF f \in DOMAIN StateLiteral THEN StateLiteral[f] ELSE FALSE]

\* Mutant: a failed initialisation is not recorded.
init_sensor_silent(ok) == InitialState

\* init_sensor(): on an exception it records the error and returns None.
init_sensor(ok) ==
    IF ok THEN InitialState
    ELSE [InitialState EXCEPT !.error = Some("Sensor init failed")]

\* Request threads that may run set_device at the same time.
MaxThreads == 2

Threads == 1..MaxThreads

\* A request thread outside set_device.
IdleHandler == [pc |-> "idle", device |-> "", on |-> FALSE]

\* init_gpio(): every relay pin is set up as an output and driven LOW.
init_gpio == [d \in DEVICES |-> FALSE]

\* Mutant: the calibration offset is left out.
TempF_no_offset(c) == (c * 9) \div 5 + 320000

\* temp_f = (temp_c * 9.0/5.0) + 32.0 + TEMP_OFFSET_F
TempF(c) == (c * 9) \div 5 + 320000 + TEMP_OFFSET_F

compute_alert(temp_f, hum) ==
    LET r == check_alert(temp_f, hum)
    IN  IF r.alert_triggered THEN r.alert_message ELSE None

\* ------------------------------------------------------------------------
\* api.py: reader_loop, one action per statement that other threads can
\* observe or that the retry logic distinguishes
\* ------------------------------------------------------------------------
\* What the sensor driver raises when a read fails: the transient I/O error
\* or another exception; reading an attribute of None raises AttributeError.
SensorErrors == IF sensor_ok THEN {"OSError", "RuntimeError"} ELSE {"AttributeError"}

\* `if attempt < max_retries - 1` of the `except OSError` clause.
may_retry(a) == a < max_retries - 1

\* No read of the running cycle has returned a value yet.
NoReads == [temp |-> None, hum |-> None, lone |-> FALSE]

readerHistory == <<before, lastGood, log, sleeps, result, failStreak>>

\* `while True:` enters the try block and the retry loop.
BeginCycle ==
    /\ pc = "top"
    /\ UNCHANGED <<evalVars, clientVars>>
    /\ cycle < MaxCycles
    /\ pc' = "read_temp"
    /\ attempt' = 0
    /\ cycle' = cycle + 1
    /\ exc' = None
    /\ before' = ReadingPart(state)
    /\ log' = <<>>
    /\ sleeps' = 0
    /\ result' = "none"
    /\ resp' = None
    /\ views' = {}
    /\ reply' = None
    /\ readAt' = NoReads
    /\ UNCHANGED <<relay, lastCmd, handlers>>
    /\ UNCHANGED <<state, sensor_ok, rd_temp_c, rd_humidity, lastGood, failStreak>>

\* Mutant: every exception is retried while attempts remain.
AttemptRaises_retries_all(kind) ==
    /\ log' = Append(log, kind)
    /\ IF may_retry(attempt)
       THEN pc' = "retry_sleep" /\ exc' = None
       ELSE pc' = "except" /\ exc' = Some(kind)
    /\ resp' = None
    /\ views' = {}
    /\ reply' = None
    /\ UNCHANGED <<relay, lastCmd, handlers>>
    /\ UNCHANGED <<state, sensor_ok, attempt, cycle, before, lastGood, sleeps,
                   result, failStreak>>

\* A read of the attempt raised `kind`: `except OSError` sleeps and retries
\* while attempts remain and re-raises otherwise; anything else propagates.
AttemptRaises(kind) ==
    /\ log' = Append(log, kind)
    /\ IF kind = "OSError" /\ may_retry(attempt)
       THEN pc' = "retry_sleep" /\ exc' = None
       ELSE pc' = "except" /\ exc' = Some(kind)
    /\ resp' = None
    /\ views' = {}
    /\ reply' = None
    /\ UNCHANGED <<relay, lastCmd, handlers>>
    /\ UNCHANGED <<state, sensor_ok, attempt, cycle, before, lastGood, sleeps,
                   result, failStreak>>

\* temp_c = sensor.temperature
ReadTemperature ==
    /\ pc = "read_temp"
    /\ UNCHANGED <<evalVars, clientVars>>
    /\ \/ /\ sensor_ok
          /\ \E v \in TempCInputs : rd_temp_c' = Some(v)
          /\ readAt' = [readAt EXCEPT !.temp = Some(attempt)]
          /\ pc' = "read_hum"
          /\ resp' = None
          /\ views' = {}
          /\ reply' = None
          /\ UNCHANGED <<relay, lastCmd, handlers>>
          /\ UNCHANGED <<state, sensor_ok, attempt, rd_humidity, exc, cycle,
                         readerHistory>>
       \/ /\ \E kind \in SensorErrors : AttemptRaises(kind)
          /\ UNCHANGED <<rd_temp_c, rd_humidity, readAt>>

\* humidity = sensor.relative_humidity; break
ReadHumidity ==
    /\ pc = "read_hum"
    /\ UNCHANGED <<evalVars, clientVars>>
    /\ \/ /\ \E v \in HumidityInputs : rd_humidity' = Some(v)
          /\ readAt' = [readAt EXCEPT !.hum = Some(attempt)]
          /\ pc' = "update"
          /\ log' = Append(log, "ok")
          /\ resp' = None
          /\ views' = {}
          /\ reply' = None
          /\ UNCHANGED <<relay, lastCmd, handlers>>
          /\ UNCHANGED <<state, sensor_ok, attempt, rd_temp_c, exc, cycle, before,
                         lastGood, sleeps, result, failStreak>>
       \/ /\ \E kind \in SensorErrors : AttemptRaises(kind)
          /\ readAt' = [readAt EXCEPT !.lone = TRUE]
          /\ UNCHANGED <<rd_temp_c, rd_humidity>>

\* Mutant: the retry keeps a temperature already read and resumes at the
\* humidity read.
RetrySleep_resumes ==
    /\ pc = "retry_sleep"
    /\ UNCHANGED <<evalVars, clientVars>>
    /\ attempt' = attempt + 1
    /\ sleeps' = sleeps + 1
    /\ pc' = IF readAt.temp = Some(attempt) THEN "read_hum" ELSE "read_temp"
    /\ resp' = None
    /\ views' = {}
    /\ reply' = None
    /\ UNCHANGED <<relay, lastCmd, handlers>>
    /\ UNCHANGED readAt
    /\ UNCHANGED <<state, sensor_ok, rd_temp_c, rd_humidity, exc, cycle, before,
                   lastGood, log, result, failStreak>>

\* time.sleep(1), then the next iteration of `for attempt in range(max_retries)`
RetrySleep ==
    /\ pc = "retry_sleep"
    /\ UNCHANGED <<evalVars, clientVars>>
    /\ attempt' = attempt + 1
    /\ sleeps' = sleeps + 1
    /\ pc' = "read_temp"
    /\ resp' = None
    /\ views' = {}
    /\ reply' = None
    /\ UNCHANGED <<relay, lastCmd, handlers>>
    /\ UNCHANGED readAt
    /\ UNCHANGED <<state, sensor_ok, rd_temp_c, rd_humidity, exc, cycle, before,
                   lastGood, log, result, failStreak>>

\* Mutant: the update rebuilds the whole record, device flags included.
StateUpdate_resets_flags(s, c, h, ts) ==
    [InitialState EXCEPT !.temperature_c = Some(Round2(c)),
                         !.temperature_f = Some(Round2(TempF(c))),
                         !.humidity = Some(Round2(h)),
                         !.timestamp_iso = Some(ts),
                         !.error = None,
                         !.last_read_ok = TRUE,
                         !.alert = s.alert]

\* Mutant: the update leaves the error of an earlier cycle in place.
StateUpdate_keeps_error(s, c, h, ts) ==
    [s EXCEPT !.temperature_c = Some(Round2(c)),
              !.temperature_f = Some(Round2(TempF(c))),
              !.humidity = Some(Round2(h)),
              !.timestamp_iso = Some(ts),
              !.last_read_ok = TRUE]

\* state.update({...}) with temp_f and ts computed just before it.
StateUpdate(s, c, h, ts) ==
    [s EXCEPT !.temperature_c = Some(Round2(c)),
              !.temperature_f = Some(Round2(TempF(c))),
              !.humidity = Some(Round2(h)),
              !.timestamp_iso = Some(ts),
              !.error = None,
              !.last_read_ok = TRUE]

UpdateState ==
    /\ pc = "update"
    /\ UNCHANGED <<evalVars, clientVars>>
    /\ state' = StateUpdate(state, rd_temp_c[1], rd_humidity[1], cycle)
    /\ pc' = "alert"
    /\ resp' = None
    /\ views' = {}
    /\ reply' = None
    /\ UNCHANGED <<relay, lastCmd, handlers>>
    /\ UNCHANGED readAt
    /\ UNCHANGED <<sensor_ok, attempt, rd_temp_c, rd_humidity, exc, cycle,
                   readerHistory>>

\* state["alert"] = compute_alert(temp_f, humidity): the unrounded values.
StoreAlert ==
    /\ pc = "alert"
    /\ UNCHANGED <<evalVars, clientVars>>
    /\ state' = [state EXCEPT !.alert =
                    compute_alert(Some(TempF(rd_temp_c[1])), rd_humidity)]
    /\ pc' = "sleep"
    /\ result' = "Success"
    /\ lastGood' = ValuePart(state')
    /\ failStreak' = 0
    /\ resp' = None
    /\ views' = {}
    /\ reply' = None
    /\ UNCHANGED <<relay, lastCmd, handlers>>
    /\ UNCHANGED readAt
    /\ UNCHANGED <<sensor_ok, attempt, rd_temp_c, rd_humidity, exc, cycle, before,
                   log, sleeps>>

\* Mutant: a failed cycle also drops the stale reading.
RecordError_clears_reading(s, kind) ==
    [s EXCEPT !.error = Some("read_error: " \o kind),
              !.temperature_c = None,
              !.temperature_f = None,
              !.humidity = None]

\* state["error"] = f"read_error: {type(e).__name__}: {e}"
RecordError(s, kind) == [s EXCEPT !.error = Some("read_error: " \o kind)]

ExceptError ==
    /\ pc = "except"
    /\ UNCHANGED <<evalVars, clientVars>>
    /\ state' = RecordError(state, exc[1])
    /\ pc' = "except_flag"
    /\ resp' = None
    /\ views' = {}
    /\ reply' = None
    /\ UNCHANGED <<relay, lastCmd, handlers>>
    /\ UNCHANGED readAt
    /\ UNCHANGED <<sensor_ok, attempt, rd_temp_c, rd_humidity, exc, cycle,
                   readerHistory>>

\* Mutant: the reader thread ends after a failed cycle.
ExceptFlag_exits ==
    /\ pc = "except_flag"
    /\ UNCHANGED <<evalVars, clientVars>>
    /\ state' = [state EXCEPT !.last_read_ok = FALSE]
    /\ pc' = "exited"
    /\ result' = "Failure"
    /\ failStreak' = failStreak + 1
    /\ resp' = None
    /\ views' = {}
    /\ reply' = None
    /\ UNCHANGED <<relay, lastCmd, handlers>>
    /\ UNCHANGED readAt
    /\ UNCHANGED <<sensor_ok, attempt, rd_temp_c, rd_humidity, exc, cycle, before,
                   lastGood, log, sleeps>>

\* state["last_read_ok"] = False
ExceptFlag ==
    /\ pc = "except_flag"
    /\ UNCHANGED <<evalVars, clientVars>>
    /\ state' = [state EXCEPT !.last_read_ok = FALSE]
    /\ pc' = "sleep"
    /\ result' = "Failure"
    /\ failStreak' = failStreak + 1
    /\ resp' = None
    /\ views' = {}
    /\ reply' = None
    /\ UNCHANGED <<relay, lastCmd, handlers>>
    /\ UNCHANGED readAt
    /\ UNCHANGED <<sensor_ok, attempt, rd_temp_c, rd_humidity, exc, cycle, before,
                   lastGood, log, sleeps>>

\* time.sleep(READ_INTERVAL)
PollSleep ==
    /\ pc = "sleep"
    /\ UNCHANGED <<evalVars, clientVars>>
    /\ pc' = "top"
    /\ resp' = None
    /\ views' = {}
    /\ reply' = None
    /\ UNCHANGED <<relay, lastCmd, handlers>>
    /\ UNCHANGED readAt
    /\ UNCHANGED <<state, sensor_ok, attempt, rd_temp_c, rd_humidity, exc, cycle,
                   readerHistory>>

\* ------------------------------------------------------------------------
\* api.py: GET /sensor, served by a request thread while the reader runs
\* ------------------------------------------------------------------------
\* The reading fields a snapshot taken now may show without mixing two
\* cycles: those of the last completed cycle, or those the running cycle
\* is about to complete with.
ConsistentViews ==
    {IF pc \in {"top", "sleep"} THEN ReadingPart(state) ELSE before}
    \cup (IF pc = "alert"
          THEN {[ReadingPart(state) EXCEPT !.alert =
                    compute_alert(Some(TempF(rd_temp_c[1])), rd_humidity)]}
          ELSE {})
    \cup (IF pc = "except_flag"
          THEN {[ReadingPart(state) EXCEPT !.last_read_ok = FALSE]}
          ELSE {})

\* return jsonify(state)
get_sensor ==
    /\ UNCHANGED <<evalVars, clientVars>>
    /\ resp' = Some(state)
    /\ views' = ConsistentViews
    /\ reply' = None
    /\ UNCHANGED <<relay, lastCmd, handlers>>
    /\ UNCHANGED readAt
    /\ UNCHANGED <<state, sensor_ok, pc, attempt, rd_temp_c, rd_humidity, exc,
                   cycle, readerHistory>>

\* ------------------------------------------------------------------------
\* api.py: GET /health
\* ------------------------------------------------------------------------
\* Mutant: health is judged by the error text.
health_status_by_error(s) == IF s.error = None THEN "ok" ELSE "degraded"

\* "ok" if state.get("last_read_ok") else "degraded"
health_status(s) == IF s.last_read_ok THEN "ok" ELSE "degraded"

health ==
    /\ UNCHANGED <<evalVars, clientVars>>
    /\ reply' = Some([kind |-> "health", status |-> health_status(state)])
    /\ resp' = None
    /\ views' = {}
    /\ UNCHANGED <<state, relay, lastCmd, handlers, readAt>>
    /\ UNCHANGED <<sensor_ok, pc, attempt, rd_temp_c, rd_humidity, exc, cycle,
                   readerHistory>>

\* ------------------------------------------------------------------------
\* api.py: POST /control/<device>
\* ------------------------------------------------------------------------
\* Device names of the URL: the configured ones and one that is not.
DeviceNames == DEVICES \cup {"fan"}

\* Texts sent as the "state" value.
StateTexts == {"on", "ON", "off", "sideways"}

\* The JSON types other than string.
OtherJsonTypes == {"number", "boolean", "null", "list", "object"}

\* A JSON value is modelled by its type, a string also by its text.
JsonValues ==
    {[type |-> "string", text |-> t] : t \in StateTexts}
    \cup {[type |-> ty, text |-> ""] : ty \in OtherJsonTypes}

\* request.get_json(): the empty object, an object without "state", and
\* objects whose "state" is each of the values above.
Bodies ==
    {<<>>}
    \cup {("speed" :> [type |-> "number", text |-> ""])}
    \cup {("state" :> v) : v \in JsonValues}

\* str.lower() on the texts above.
lower(t) ==
    CASE t = "ON" -> "on"
      [] OTHER -> t

\* d[k] = v on a dict: the key is added when it is not there yet.
Put(s, k, v) == [f \in DOMAIN s \cup {k} |-> IF f = k THEN v ELSE s[f]]

\* Mutant: any device name passes.
valid_device_any(device) == TRUE

\* `if device not in DEVICES` answers 400
valid_device(device) == device \in DEVICES

\* `if not data or "state" not in data` answers 400
missing_state(data) == DOMAIN data = {} \/ "state" \notin DOMAIN data

\* Mutant: the text is compared as sent.
requested_state_as_sent(v) == v.text

\* requested_state = data["state"].lower()
requested_state(v) == lower(v.text)

\* Mutant: every text passes and anything but "on" switches off.
valid_state_any(rs) == TRUE

\* `if requested_state not in ["on", "off"]` answers 400
valid_state(rs) == rs \in {"on", "off"}

\* An answer of the handler with the state and relay levels it leaves.
Answer(status, error, value, gpio, s, r) ==
    [status |-> status, error |-> error, value |-> value, gpio |-> gpio,
     state |-> s, relay |-> r]

\* Mutant: the flag is stored before the relay is driven.
drive_flag_first(s, r, device, on, hw_ok) ==
    IF hw_ok
    THEN Answer(200, None, Some(on), "ok", Put(s, state_key(device), on),
                [r EXCEPT ![device] = on])
    ELSE Answer(500, Some("Failed to set state"), None, "raised",
                Put(s, state_key(device), on), r)

\* Mutant: a command flips the device.
drive_toggle(s, r, device, on, hw_ok) ==
    IF hw_ok
    THEN Answer(200, None, Some(~r[device]), "ok",
                Put(s, state_key(device), ~r[device]),
                [r EXCEPT ![device] = ~r[device]])
    ELSE Answer(500, Some("Failed to set state"), None, "raised", s, r)

\* The try block: GPIO.output(relay, HIGH or LOW), then the flag, then the
\* 200 answer that reads the flag back; an exception of GPIO.output skips
\* the flag and answers 500.
drive(s, r, device, on, hw_ok) ==
    IF hw_ok
    THEN LET s2 == Put(s, state_key(device), on)
         IN  Answer(200, None, Some(s2[state_key(device)]), "ok", s2,
                    [r EXCEPT ![device] = on])
    ELSE Answer(500, Some("Failed to set state"), None, "raised", s, r)

\* The handler from its first line to its return.  data["state"].lower()
\* stands before the try block: a value without a lower method raises
\* AttributeError, which the framework answers with 500.
set_device_answer(s, r, device, data, hw_ok) ==
    IF ~valid_device(device)
    THEN Answer(400, Some("Unknown device"), None, "not_called", s, r)
    ELSE IF missing_state(data)
    THEN Answer(400, Some("Missing 'state' field"), None, "not_called", s, r)
    ELSE IF data.state.type # "string"
    THEN Answer(500, Some("AttributeError"), None, "not_called", s, r)
    ELSE IF ~valid_state(requested_state(data.state))
    THEN Answer(400, Some("State must be 'on' or 'off'"), None, "not_called", s, r)
    ELSE drive(s, r, device, requested_state(data.state) = "on", hw_ok)

\* The texts that spell a command, in the letter cases sent.
OnTexts == {"on", "ON"}
OffTexts == {"off"}

\* The request names a configured device and spells "on" or "off".
IsCommand(device, data) ==
    /\ device \in DEVICES
    /\ "state" \in DOMAIN data
    /\ data.state.type = "string"
    /\ data.state.text \in OnTexts \cup OffTexts

\* GPIO.output either drives the pin or raises; it is only reached by a
\* request that passed every check before the try block.
GpioOutcomes(device, data) ==
    IF set_device_answer(state, relay, device, data, TRUE).gpio = "not_called"
    THEN {TRUE}
    ELSE BOOLEAN

set_device ==
    /\ UNCHANGED <<evalVars, clientVars>>
    /\ \E device \in DeviceNames, data \in Bodies :
       \E hw_ok \in GpioOutcomes(device, data) :
          LET a == set_device_answer(state, relay, device, data, hw_ok)
          IN  /\ state' = a.state
              /\ relay' = a.relay
              /\ reply' = Some([kind |-> "control", device |-> device, data |-> data,
                                status |-> a.status, error |-> a.error,
                                value |-> a.value, gpio |-> a.gpio,
                                state_before |-> state, relay_before |-> relay,
                                cmd_before |-> lastCmd])
              /\ lastCmd' = IF IsCommand(device, data) /\ hw_ok
                            THEN [lastCmd EXCEPT ![device] = data.state.text \in OnTexts]
                            ELSE lastCmd
    /\ resp' = None
    /\ views' = {}
    /\ UNCHANGED <<handlers, readAt>>
    /\ UNCHANGED <<sensor_ok, pc, attempt, rd_temp_c, rd_humidity, exc, cycle,
                   readerHistory>>

\* ------------------------------------------------------------------------
\* Server specification
\* ------------------------------------------------------------------------
EvalIdle ==
    /\ arg_temp_f = None /\ arg_humidity = None /\ ret = None
    /\ pair = None /\ verdicts = None

NoCycle == [fetched |-> FALSE, alert |-> FALSE, now |-> 0, last_before |-> 0,
            buzzed |-> FALSE, flags |-> None]

ClientIdle ==
    /\ headless = TRUE
    /\ clock = 0
    /\ last_buzz_time = 0
    /\ last_log_time = 0
    /\ led = [d \in DEVICES |-> FALSE]
    /\ last = NoCycle
    /\ onAt = None
    /\ prevOnAt = None
    /\ slowFetches = 0
    /\ failedFetches = 0
    /\ quietPolls = 0

ServerInit ==
    /\ sensor_ok \in BOOLEAN
    /\ state = init_sensor(sensor_ok)
    /\ pc = "top"
    /\ attempt = 0
    /\ rd_temp_c = None
    /\ rd_humidity = None
    /\ exc = None
    /\ cycle = 0
    /\ resp = None
    /\ before = ReadingPart(state)
    /\ lastGood = ValuePart(state)
    /\ log = <<>>
    /\ sleeps = 0
    /\ result = "none"
    /\ failStreak = 0
    /\ views = {}
    /\ relay = init_gpio
    /\ reply = None
    /\ handlers = [t \in Threads |-> IdleHandler]
    /\ readAt = NoReads
    /\ lastCmd = [d \in DEVICES |-> FALSE]

Init == EvalIdle /\ ServerInit /\ ClientIdle

Next ==
    \/ BeginCycle
    \/ ReadTemperature
    \/ ReadHumidity
    \/ RetrySleep
    \/ UpdateState
    \/ StoreAlert
    \/ ExceptError
    \/ ExceptFlag
    \/ PollSleep
    \/ get_sensor
    \/ health

Spec == Init /\ [][Next]_vars

\* The reader thread is a running thread: it is scheduled again and again
\* while requests are served.
ReaderStep ==
    \/ BeginCycle
    \/ ReadTemperature
    \/ ReadHumidity
    \/ RetrySleep
    \/ UpdateState
    \/ StoreAlert
    \/ ExceptError
    \/ ExceptFlag
    \/ PollSleep

SpecLive == Init /\ [][Next]_vars /\ WF_vars(ReaderStep)

\* ------------------------------------------------------------------------
\* Control specification: control requests handled one after another while
\* the reader thread polls
\* ------------------------------------------------------------------------
\* Poll cycles run while control requests are served.
MaxControlCycles == 2

\* One whole iteration of reader_loop between two requests: the reads
\* succeed and the reading and its alert are stored, or they raise (an
\* OSError on every attempt, or another exception on the first) and the
\* error and the flag are stored.
reader_cycle ==
    /\ pc = "top"
    /\ UNCHANGED <<evalVars, clientVars>>
    /\ cycle < MaxControlCycles
    /\ cycle' = cycle + 1
    /\ before' = ReadingPart(state)
    /\ \/ /\ sensor_ok
          /\ \E c \in TempCInputs, h \in HumidityInputs :
                /\ rd_temp_c' = Some(c)
                /\ rd_humidity' = Some(h)
                /\ readAt' = [temp |-> Some(0), hum |-> Some(0), lone |-> FALSE]
                /\ state' = [StateUpdate(state, c, h, cycle') EXCEPT !.alert =
                                compute_alert(Some(TempF(c)), Some(h))]
          /\ exc' = None
          /\ attempt' = 0
          /\ log' = <<"ok">>
          /\ sleeps' = 0
          /\ result' = "Success"
          /\ lastGood' = ValuePart(state')
          /\ failStreak' = 0
       \/ /\ \E kind \in SensorErrors :
                /\ exc' = Some(kind)
                /\ state' = [RecordError(state, kind) EXCEPT !.last_read_ok = FALSE]
                /\ attempt' = IF kind = "OSError" THEN max_retries - 1 ELSE 0
                /\ log' = IF kind = "OSError" THEN [i \in 1..max_retries |-> kind]
                                              ELSE <<kind>>
          /\ sleeps' = attempt'
          /\ result' = "Failure"
          /\ failStreak' = failStreak + 1
          /\ readAt' = NoReads
          /\ UNCHANGED <<rd_temp_c, rd_humidity, lastGood>>
    /\ resp' = None
    /\ views' = {}
    /\ reply' = None
    /\ UNCHANGED <<sensor_ok, pc, relay, lastCmd, handlers>>

ControlNext ==
    \/ reader_cycle
    \/ get_sensor
    \/ set_device

SpecControl == Init /\ [][ControlNext]_vars

\* ------------------------------------------------------------------------
\* Alert evaluator specification: check_alert applied to every argument pair
\* ------------------------------------------------------------------------
\* Arguments around each threshold, on it, and well inside each band.
TempFArgs == {None} \cup {Some(v) : v \in {700000, 749900, 750000, 750100, 800000,
                                           849900, 850000, 850100, 900000}}

HumidityArgs == {None} \cup {Some(v) : v \in {500000, 749900, 750000, 750100, 850000,
                                              949900, 950000, 950100, 990000}}

EvalInit ==
    /\ arg_temp_f \in TempFArgs
    /\ arg_humidity \in HumidityArgs
    /\ ret = None
    /\ pair = None
    /\ verdicts = None
    /\ sensor_ok = TRUE
    /\ ServerInit
    /\ ClientIdle

\* alert_triggered, alert_message, lcd_alert = check_alert(temp_f, humidity)
Evaluate ==
    /\ ret = None
    /\ ret' = Some(check_alert(arg_temp_f, arg_humidity))
    /\ UNCHANGED <<arg_temp_f, arg_humidity, pair, verdicts, serverVars, clientVars>>

\* The next call, with other arguments.
Call ==
    /\ ret # None
    /\ arg_temp_f' \in TempFArgs
    /\ arg_humidity' \in HumidityArgs
    /\ ret' = None
    /\ UNCHANGED <<pair, verdicts, serverVars, clientVars>>

EvalNext == Evaluate \/ Call

SpecAlert == EvalInit /\ [][EvalNext]_vars

\* ------------------------------------------------------------------------
\* client.py: the polling loop of main()
\* ------------------------------------------------------------------------
\* Times are whole seconds of time.time().  The LCD, its dwell excepted, and
\* the error-display timer that only gates LCD output are not modelled.

\* time.time() when the client starts: any value past the cooldown, as the
\* epoch clock is.
StartTime == 1000

\* Seconds of client run time after which no further iteration begins: a
\* cooldown and one slow poll, so that an iteration begins after the
\* cooldown of a firing at the start has run out.
MaxElapsed == 306

\* Fetches that may take a second, in one run.
MaxSlowFetches == 2

\* Iterations without an alert in one run: failed fetches, and fetched
\* bodies whose reading raises no alert.
MaxQuietCycles == 1

POLL_INTERVAL == 5
BUZZ_DURATION == 3
ALERT_DISPLAY_DURATION_SECONDS == 20
BUZZ_COOLDOWN == 300

\* Bodies of /sensor the client may receive: with the device flags of
\* api.py, or without them as hermie_api.py serves them.
FetchedData ==
    [temperature_f : {None, Some(800000), Some(900000)},
     humidity : {Some(800000)},
     heat_on : BOOLEAN,
     pump_on : BOOLEAN]
    \cup [temperature_f : {None, Some(800000), Some(900000)},
          humidity : {Some(800000)}]

\* Mutant: the cooldown must be exceeded, not only reached.
should_buzz_strict(alert_triggered, current_time, last_time) ==
    alert_triggered /\ current_time - last_time > BUZZ_COOLDOWN

\* Mutant: only the first alert fires.
should_buzz_once(alert_triggered, current_time, last_time) ==
    alert_triggered /\ last_time = 0

\* Mutant: before the first firing the cooldown runs from the client's start.
should_buzz_from_start(alert_triggered, current_time, last_time) ==
    alert_triggered
    /\ current_time - (IF last_time = 0 THEN StartTime ELSE last_time) >= BUZZ_COOLDOWN

\* should_buzz(alert_triggered, alert_message, current_time), reading the
\* global last_buzz_time.
should_buzz(alert_triggered, current_time, last_time) ==
    alert_triggered /\ current_time - last_time >= BUZZ_COOLDOWN

\* Mutant: an LED is switched on with its flag and never switched off.
update_leds_latches(data) ==
    IF headless THEN led
    ELSE [d \in DEVICES |-> led[d] \/ (state_key(d) \in DOMAIN data
                                       /\ data[state_key(d)])]

\* Mutant: the LEDs are left alone when a flag is missing from the body.
update_leds_keeps_missing(data) ==
    IF headless THEN led
    ELSE [d \in DEVICES |-> IF state_key(d) \in DOMAIN data THEN data[state_key(d)]
                                                            ELSE led[d]]

\* update_leds(sensor_data): nothing when there are no LED indicators, else
\* sensor_data.get(f"{device}_on", False) on each device's LED pin.
update_leds(data) ==
    IF headless THEN led
    ELSE [d \in DEVICES |-> IF state_key(d) \in DOMAIN data THEN data[state_key(d)]
                                                            ELSE FALSE]

\* The device flags of a fetched body, a missing one read as off; in
\* headless mode, where no LED pin exists, nothing is recorded.
FetchedFlags(data) ==
    IF headless THEN None
    ELSE Some([d \in DEVICES |-> state_key(d) \in DOMAIN data /\ data[state_key(d)]])

\* check_alert(data.get("temperature_f"), data.get("humidity"))[0]
local_alert(data) == check_alert(data.temperature_f, data.humidity).alert_triggered

\* Mutant: the server's alert field is believed.
decide_trusts_server(data, current_time, last_time) ==
    should_buzz(data.alert # None, current_time, last_time)

\* The condition of `if should_buzz(...)` for the fetched body.
decide(data, current_time, last_time) ==
    should_buzz(local_alert(data), current_time, last_time)

\* Seconds main() blocks while it actuates: the buzz, then the LCD dwell.
ActuationTime == BUZZ_DURATION + (IF headless THEN 0 ELSE ALERT_DISPLAY_DURATION_SECONDS)

ClientInit ==
    /\ headless \in BOOLEAN
    /\ clock = StartTime
    /\ last_buzz_time = 0
    /\ last_log_time = 0
    /\ led = [d \in DEVICES |-> FALSE]
    /\ last = NoCycle
    /\ onAt = None
    /\ prevOnAt = None
    /\ slowFetches = 0
    /\ failedFetches = 0
    /\ quietPolls = 0

\* How long get_sensor_data() takes: 0 or, a bounded number of times, 1 s.
FetchTimes == IF slowFetches < MaxSlowFetches THEN {0, 1} ELSE {0}

\* Mutant: a failed fetch is treated as a body without device flags.
FetchFails_clears_leds ==
    /\ clock - StartTime <= MaxElapsed
    /\ failedFetches + quietPolls < MaxQuietCycles
    /\ failedFetches' = failedFetches + 1
    /\ \E d \in FetchTimes :
        /\ slowFetches' = slowFetches + d
        /\ clock' = clock + d + POLL_INTERVAL
    /\ last' = [fetched |-> FALSE, alert |-> FALSE, now |-> clock,
                last_before |-> last_buzz_time, buzzed |-> FALSE, flags |-> None]
    /\ led' = IF headless THEN led ELSE [d \in DEVICES |-> FALSE]
    /\ UNCHANGED <<headless, last_buzz_time, last_log_time, onAt, prevOnAt,
                   quietPolls>>
    /\ UNCHANGED <<evalVars, serverVars>>

\* An iteration whose get_sensor_data() returned None.
FetchFails ==
    /\ clock - StartTime <= MaxElapsed
    /\ failedFetches + quietPolls < MaxQuietCycles
    /\ failedFetches' = failedFetches + 1
    /\ \E d \in FetchTimes :
        /\ slowFetches' = slowFetches + d
        /\ clock' = clock + d + POLL_INTERVAL
    /\ last' = [fetched |-> FALSE, alert |-> FALSE, now |-> clock,
                last_before |-> last_buzz_time, buzzed |-> FALSE, flags |-> None]
    /\ UNCHANGED <<headless, last_buzz_time, last_log_time, led, onAt, prevOnAt,
                   quietPolls>>
    /\ UNCHANGED <<evalVars, serverVars>>

\* Mutant: a suppressed alert restarts the cooldown.
FetchSucceeds_rearms ==
    /\ clock - StartTime <= MaxElapsed
    /\ \E data \in FetchedData, d \in FetchTimes :
        LET current_time == clock
            alert_triggered == local_alert(data)
            buzz == decide(data, current_time, last_buzz_time)
        IN  /\ alert_triggered \/ failedFetches + quietPolls < MaxQuietCycles
            /\ quietPolls' = quietPolls + (IF alert_triggered THEN 0 ELSE 1)
            /\ slowFetches' = slowFetches + d
            /\ IF buzz
               THEN /\ prevOnAt' = onAt
                    /\ onAt' = Some(current_time + d)
                    /\ last_buzz_time' = current_time
                    /\ clock' = clock + d + ActuationTime + POLL_INTERVAL
               ELSE /\ UNCHANGED <<prevOnAt, onAt>>
                    /\ last_buzz_time' = IF alert_triggered THEN current_time
                                                            ELSE last_buzz_time
                    /\ clock' = clock + d + POLL_INTERVAL
            /\ led' = update_leds(data)
            /\ last_log_time' = IF current_time - last_log_time >= BUZZ_COOLDOWN
                                THEN current_time ELSE last_log_time
            /\ last' = [fetched |-> TRUE, alert |-> alert_triggered,
                        now |-> current_time, last_before |-> last_buzz_time,
                        buzzed |-> buzz, flags |-> FetchedFlags(data)]
    /\ UNCHANGED <<headless, failedFetches>>
    /\ UNCHANGED <<evalVars, serverVars>>

\* An iteration whose get_sensor_data() returned the body `data` after d
\* seconds: the else branch of main(), to the end of the iteration.
FetchSucceeds ==
    /\ clock - StartTime <= MaxElapsed
    /\ \E data \in FetchedData, d \in FetchTimes :
        LET current_time == clock
            alert_triggered == local_alert(data)
            buzz == decide(data, current_time, last_buzz_time)
        IN  /\ alert_triggered \/ failedFetches + quietPolls < MaxQuietCycles
            /\ quietPolls' = quietPolls + (IF alert_triggered THEN 0 ELSE 1)
            /\ slowFetches' = slowFetches + d
            /\ IF buzz
               THEN /\ prevOnAt' = onAt
                    /\ onAt' = Some(current_time + d)
                    /\ last_buzz_time' = current_time
                    /\ clock' = clock + d + ActuationTime + POLL_INTERVAL
               ELSE /\ UNCHANGED <<prevOnAt, onAt, last_buzz_time>>
                    /\ clock' = clock + d + POLL_INTERVAL
            /\ led' = update_leds(data)
            /\ last_log_time' = IF current_time - last_log_time >= BUZZ_COOLDOWN
                                THEN current_time ELSE last_log_time
            /\ last' = [fetched |-> TRUE, alert |-> alert_triggered,
                        now |-> current_time, last_before |-> last_buzz_time,
                        buzzed |-> buzz, flags |-> FetchedFlags(data)]
    /\ UNCHANGED <<headless, failedFetches>>
    /\ UNCHANGED <<evalVars, serverVars>>

ClientNext == FetchFails \/ FetchSucceeds

\* The client loop while every fetch succeeds with a body whose reading
\* raises an alert.
PersistentNext == FetchSucceeds /\ last'.alert

ClientSpecInit == EvalIdle /\ sensor_ok = TRUE /\ ServerInit /\ ClientInit

SpecClient == ClientSpecInit /\ [][ClientNext]_vars

\* main() is the only thread of the client and loops for ever: its next
\* iteration is always taken.
SpecPersistent == ClientSpecInit /\ [][PersistentNext]_vars /\ WF_vars(PersistentNext)

\* ------------------------------------------------------------------------
\* Decision specification: the client's decision taken on two bodies at the
\* same time with the same last_buzz_time
\* ------------------------------------------------------------------------
\* The fields of a /sensor body that main() reads.
Snapshots ==
    [temperature_f : {None, Some(700000), Some(800000), Some(850000), Some(900000)},
     humidity : {None, Some(800000), Some(990000)},
     alert : {None, Some("Temperature exceeds threshold")},
     error : {None, Some("read_error: OSError")},
     last_read_ok : BOOLEAN]

\* time.time() of the iteration and last_buzz_time: the first iteration,
\* and one second before and exactly at the end of the cooldown of a firing
\* at the start.
DecisionTimes ==
    {<<StartTime, 0>>,
     <<StartTime + BUZZ_COOLDOWN, 0>>,
     <<StartTime + BUZZ_COOLDOWN - 1, StartTime>>,
     <<StartTime + BUZZ_COOLDOWN, StartTime>>}

DecideInit ==
    /\ arg_temp_f = None /\ arg_humidity = None /\ ret = None
    /\ \E a \in Snapshots, b \in Snapshots, tm \in DecisionTimes :
          /\ a.temperature_f = b.temperature_f
          /\ a.humidity = b.humidity
          /\ pair = Some([a |-> a, b |-> b, current_time |-> tm[1], last_time |-> tm[2]])
    /\ verdicts = None
    /\ sensor_ok = TRUE
    /\ ServerInit
    /\ ClientIdle

Decide ==
    /\ verdicts = None
    /\ verdicts' = Some([a |-> decide(pair[1].a, pair[1].current_time, pair[1].last_time),
                         b |-> decide(pair[1].b, pair[1].current_time, pair[1].last_time)])
    /\ UNCHANGED <<arg_temp_f, arg_humidity, ret, pair, serverVars, clientVars>>

SpecDecide == DecideInit /\ [][Decide]_vars

\* ------------------------------------------------------------------------
\* Properties of the reader loop (Spec)
\* ------------------------------------------------------------------------
\* C1: once a poll cycle has failed, last_read_ok is false, error is a
\* string, and temperature_c, temperature_f, humidity, timestamp_iso and
\* alert are what they were when the cycle began, which is what the last
\* successful cycle stored (all null if there was none), however many
\* cycles have failed in a row.
C1_FailureKeepsLastReading ==
    result = "Failure" =>
        /\ state.last_read_ok = FALSE
        /\ state.error # None
        /\ \A f \in ValueFields : state[f] = before[f]
        /\ \A f \in ValueFields : state[f] = lastGood[f]

\* A second failure in a row, by retry exhaustion, after a successful cycle.
C1_Witness ==
    /\ result = "Failure"
    /\ failStreak >= 2
    /\ log = <<"OSError", "OSError", "OSError">>
    /\ lastGood.temperature_f # None
    /\ state.temperature_f = lastGood.temperature_f

\* C2: a cycle makes at most 3 read attempts, each further attempt follows
\* an attempt that raised OSError and one 1-second sleep, no sleep follows
\* the last attempt, a cycle with a successful attempt ends in Success, and
\* a cycle fails on OSError only after 3 attempts that all raised it.
C2_BoundedRetry ==
    /\ Len(log) <= 3
    /\ \A i \in 1..(Len(log) - 1) : log[i] = "OSError"
    /\ (pc \in {"read_temp", "read_hum"} => sleeps = Len(log))
    /\ (pc = "retry_sleep" => sleeps = Len(log) - 1 /\ Len(log) < 3)
    /\ (pc \in {"update", "alert", "except", "except_flag"} => sleeps = Len(log) - 1)
    /\ (result # "none" => sleeps = Len(log) - 1)
    /\ (result = "Success" => log[Len(log)] = "ok")
    /\ (result = "Failure" => \A i \in 1..Len(log) : log[i] # "ok")
    /\ (result = "Failure" /\ exc = Some("OSError")
            => log = <<"OSError", "OSError", "OSError">>)

\* A cycle that succeeded on its third attempt, after two sleeps.
C2_Witness ==
    /\ result = "Success"
    /\ log = <<"OSError", "OSError", "ok">>
    /\ sleeps = 2

\* C3 as stated: after a successful cycle the state holds the values read,
\* temperature_f = temp_c * 9/5 + 32 + offset, last_read_ok, no error, and
\* the alert the evaluator gives for the stored reading.
C3_AsStated ==
    result = "Success" =>
        /\ state.temperature_c = rd_temp_c
        /\ state.temperature_f = Some((rd_temp_c[1] * 9) \div 5 + 320000 - 10000)
        /\ state.humidity = rd_humidity
        /\ state.timestamp_iso = Some(cycle)
        /\ state.last_read_ok = TRUE
        /\ state.error = None
        /\ state.alert = compute_alert(state.temperature_f, state.humidity)

\* C3 (amended): after a successful cycle the state holds the values read
\* rounded to 2 decimals, temperature_f = round(temp_c * 9/5 + 32 + offset, 2),
\* the cycle's timestamp, last_read_ok true, error null, and the alert the
\* evaluator gives for the unrounded temp_f and humidity, whatever the
\* state was before the cycle.
C3_SuccessReplacesState ==
    result = "Success" =>
        /\ state.temperature_c = Some(RoundTo(rd_temp_c[1], 100))
        /\ state.temperature_f =
               Some(RoundTo((rd_temp_c[1] * 9) \div 5 + 320000 - 10000, 100))
        /\ state.humidity = Some(RoundTo(rd_humidity[1], 100))
        /\ state.timestamp_iso = Some(cycle)
        /\ state.last_read_ok = TRUE
        /\ state.error = None
        /\ state.alert =
               compute_alert(Some((rd_temp_c[1] * 9) \div 5 + 320000 - 10000),
                             rd_humidity)

\* A success right after a failed cycle, with a reading that rounding changes
\* and that raises an alert.
C3_Witness ==
    /\ result = "Success"
    /\ before.error # None
    /\ before.last_read_ok = FALSE
    /\ before.temperature_c # None
    /\ state.temperature_c # rd_temp_c
    /\ state.alert # None

\* C4: the body of every GET /sensor shows reading fields of one cycle
\* only: those the last completed cycle left, or those the running cycle
\* completes with.
C4_ConsistentSnapshot ==
    resp # None => ReadingPart(resp[1]) \in views

\* ------------------------------------------------------------------------
\* Properties of the client loop (SpecClient)
\* ------------------------------------------------------------------------
\* C5: an iteration whose alert is active actuates iff now - last_buzz_time
\* >= 300, and an actuation sets last_buzz_time to the iteration's now.
C5_CooldownGate ==
    last.fetched /\ last.alert =>
        /\ last.buzzed <=> last.now - last.last_before >= 300
        /\ last.buzzed => last_buzz_time = last.now
        /\ ~last.buzzed => last_buzz_time = last.last_before

\* An actuation exactly 300 s after the previous one.
C5_Witness ==
    /\ last.fetched /\ last.alert /\ last.buzzed
    /\ last.last_before >= StartTime
    /\ last.now - last.last_before = 300

\* An alert suppressed 299 s after the last actuation.
C5_SuppressedAt299 ==
    /\ last.fetched /\ last.alert /\ ~last.buzzed
    /\ last.now - last.last_before = 299

\* C6: at least the cooldown elapses between two consecutive calls of
\* buzzer.on().
C6_BuzzerOnSpacing ==
    prevOnAt # None => onAt[1] - prevOnAt[1] >= BUZZ_COOLDOWN

\* ------------------------------------------------------------------------
\* Properties of check_alert (SpecAlert)
\* ------------------------------------------------------------------------
\* C7: a temperature above the high threshold gives the high-temperature
\* alert and one below the low threshold the low-temperature alert,
\* whatever the humidity.
C7_TemperaturePrecedence ==
    ret # None /\ arg_temp_f # None =>
        /\ arg_temp_f[1] > TEMP_HIGH_THRESHOLD =>
                /\ ret[1].alert_triggered
                /\ ret[1].lcd_alert = Some("Alert: High temp")
                /\ ret[1].alert_message[1].text = "Temperature exceeds"
        /\ arg_temp_f[1] < TEMP_LOW_THRESHOLD =>
                /\ ret[1].alert_triggered
                /\ ret[1].lcd_alert = Some("Alert: Low temp")
                /\ ret[1].alert_message[1].text = "Temperature below"

\* check_alert(90.0, 50.0): high temperature, although the humidity is low.
C7_Witness ==
    /\ ret # None
    /\ arg_temp_f = Some(900000)
    /\ arg_humidity = Some(500000)
    /\ ret[1].lcd_alert = Some("Alert: High temp")

\* C8: with a null temperature check_alert returns no alert for every
\* humidity.
C8_NullTemperature ==
    ret # None /\ arg_temp_f = None => ret[1] = NoAlert

\* check_alert(None, 99.0)
C8_Witness ==
    /\ ret # None
    /\ arg_temp_f = None
    /\ arg_humidity = Some(990000)

\* C9: a temperature strictly between its thresholds with a humidity
\* strictly between its thresholds gives no alert.
C9_InRangeNoAlert ==
    (/\ ret # None /\ arg_temp_f # None /\ arg_humidity # None
     /\ TEMP_LOW_THRESHOLD < arg_temp_f[1] /\ arg_temp_f[1] < TEMP_HIGH_THRESHOLD
     /\ HUMIDITY_LOW_THRESHOLD < arg_humidity[1]
     /\ arg_humidity[1] < HUMIDITY_HIGH_THRESHOLD)
    => ret[1].alert_triggered = FALSE /\ ret[1].alert_message = None

\* check_alert(84.99, 94.99)
C9_Witness ==
    /\ ret # None
    /\ arg_temp_f = Some(849900)
    /\ arg_humidity = Some(949900)

\* C10: with low <= temp_f <= high, the result is the high-humidity alert
\* iff the humidity is present and above its high threshold, the
\* low-humidity alert iff it is present and below its low threshold, and
\* no alert when the humidity is null or equals a threshold.
C10_HumidityBranch ==
    (/\ ret # None /\ arg_temp_f # None
     /\ TEMP_LOW_THRESHOLD <= arg_temp_f[1] /\ arg_temp_f[1] <= TEMP_HIGH_THRESHOLD)
    =>
        /\ ret[1].lcd_alert = Some("Alert: High hum")
                <=> (arg_humidity # None /\ arg_humidity[1] > HUMIDITY_HIGH_THRESHOLD)
        /\ ret[1].lcd_alert = Some("Alert: Low humid")
                <=> (arg_humidity # None /\ arg_humidity[1] < HUMIDITY_LOW_THRESHOLD)
        /\ ret[1].lcd_alert \in {None, Some("Alert: High hum"), Some("Alert: Low humid")}
        /\ (arg_humidity = None
             \/ arg_humidity[1] \in {HUMIDITY_LOW_THRESHOLD, HUMIDITY_HIGH_THRESHOLD})
                => ret[1] = NoAlert

\* check_alert(85.0, 95.0): both values on a threshold, no alert.
C10_Witness ==
    /\ ret # None
    /\ arg_temp_f = Some(850000)
    /\ arg_humidity = Some(950000)
    /\ ret[1] = NoAlert

\* ------------------------------------------------------------------------
\* Device control
\* ------------------------------------------------------------------------
\* The last step answered a POST /control/<device>.
ControlAnswered == reply # None /\ reply[1].kind = "control"

\* C11: whatever control requests were handled one after another, each
\* device's flag, in the shared state and in the body of GET /sensor, and
\* its relay level equal the last command carried out for it ("on" in any
\* letter case: true and HIGH, "off": false and LOW), and are false and LOW
\* when there was none; a command that is carried out is answered 200 with
\* the new boolean.
C11_FlagFollowsLastCommand ==
    /\ \A d \in DEVICES :
          /\ state[state_key(d)] = lastCmd[d]
          /\ relay[d] = lastCmd[d]
          /\ resp # None => resp[1][state_key(d)] = lastCmd[d]
    /\ (/\ ControlAnswered
        /\ IsCommand(reply[1].device, reply[1].data)
        /\ reply[1].gpio # "raised")
       => /\ reply[1].status = 200
          /\ reply[1].value = Some(reply[1].data.state.text \in OnTexts)

\* "ON" for the pump is answered 200 with true while the heater, switched
\* on by an earlier request, stays on and a reading is stored.
C11_Witness ==
    /\ ControlAnswered
    /\ reply[1].device = "pump"
    /\ reply[1].data = ("state" :> [type |-> "string", text |-> "ON"])
    /\ reply[1].status = 200
    /\ reply[1].value = Some(TRUE)
    /\ ~reply[1].state_before.pump_on
    /\ state.pump_on /\ relay["pump"]
    /\ state.heat_on /\ relay["heat"]
    /\ state.temperature_f # None

\* C12: a control request for a device that is not configured, or whose
\* body has no "state" field (the empty object included), or whose state
\* text is neither "on" nor "off", is answered 400 and leaves every device
\* flag, every relay level and every reading field as it was.
C12_RejectedLeavesState ==
    (/\ ControlAnswered
     /\ \/ reply[1].device \notin DEVICES
        \/ "state" \notin DOMAIN reply[1].data
        \/ /\ reply[1].data.state.type = "string"
           /\ reply[1].data.state.text \notin OnTexts \cup OffTexts)
    => /\ reply[1].status = 400
       /\ state = reply[1].state_before
       /\ relay = reply[1].relay_before

\* "sideways" for the heater, which an earlier request switched on, is
\* answered 400 with a reading in the state.
C12_Witness ==
    /\ ControlAnswered
    /\ reply[1].device = "heat"
    /\ reply[1].data = ("state" :> [type |-> "string", text |-> "sideways"])
    /\ reply[1].status = 400
    /\ state.heat_on /\ relay["heat"]
    /\ state.temperature_f # None

\* C13: a control request for a configured device whose "state" value is
\* not "on" or "off" in some letter case is answered 400, whatever the JSON
\* type of the value: a string, a number, a boolean, null, a list or an
\* object.
C13_InvalidStateIs400 ==
    (/\ ControlAnswered
     /\ reply[1].device \in DEVICES
     /\ "state" \in DOMAIN reply[1].data
     /\ ~IsCommand(reply[1].device, reply[1].data))
    => reply[1].status = 400

\* C14: a command that repeats the last command carried out for the same
\* device is answered 200 again, with the same boolean, and leaves the
\* device's flag and relay level, and the rest of the state, as the first
\* application left them.
C14_Idempotent ==
    (/\ ControlAnswered
     /\ IsCommand(reply[1].device, reply[1].data)
     /\ reply[1].gpio # "raised"
     /\ reply[1].cmd_before[reply[1].device] = (reply[1].data.state.text \in OnTexts))
    => /\ reply[1].status = 200
       /\ reply[1].value = Some(reply[1].cmd_before[reply[1].device])
       /\ state = reply[1].state_before
       /\ relay = reply[1].relay_before

\* "on" for the heater a second time: 200, heater still on.
C14_Witness ==
    /\ ControlAnswered
    /\ reply[1].device = "heat"
    /\ reply[1].data = ("state" :> [type |-> "string", text |-> "on"])
    /\ reply[1].cmd_before["heat"]
    /\ reply[1].state_before.heat_on /\ reply[1].relay_before["heat"]
    /\ reply[1].status = 200
    /\ state.heat_on /\ relay["heat"]

\* C15: when GPIO.output raises for a request that passed every check, the
\* answer is 500 and the shared state, the device's flag included, is as it
\* was before the request.
C15_HardwareFailureKeepsFlag ==
    (ControlAnswered /\ reply[1].gpio = "raised")
    => /\ IsCommand(reply[1].device, reply[1].data)
       /\ reply[1].status = 500
       /\ state[state_key(reply[1].device)]
              = reply[1].state_before[state_key(reply[1].device)]
       /\ state = reply[1].state_before

\* "off" for the pump, which is on, fails at the relay: 500, pump flag
\* still true.
C15_Witness ==
    /\ ControlAnswered
    /\ reply[1].gpio = "raised"
    /\ reply[1].device = "pump"
    /\ reply[1].data = ("state" :> [type |-> "string", text |-> "off"])
    /\ reply[1].status = 500
    /\ reply[1].state_before.pump_on
    /\ state.pump_on
    /\ state.temperature_f # None

\* C16: in every reachable state the keys of the shared state are the
\* reading fields and exactly one flag key, "<device>_on", per configured
\* device: no poll cycle and no control request, carried out or rejected,
\* adds or removes a key.
C16_FlagKeysAreDevices ==
    /\ DOMAIN state \ ReadingFields = {state_key(d) : d \in DEVICES}
    /\ ReadingFields \subseteq DOMAIN state
    /\ resp # None => DOMAIN resp[1] = DOMAIN state

\* After two poll cycles and a command for the heater, a request for the
\* unknown device "fan" has just been rejected.
C16_Witness ==
    /\ ControlAnswered
    /\ reply[1].device = "fan"
    /\ reply[1].data = ("state" :> [type |-> "string", text |-> "on"])
    /\ reply[1].status = 400
    /\ state.heat_on
    /\ cycle = MaxControlCycles
    /\ DOMAIN state \ ReadingFields = {"heat_on", "pump_on"}

\* ------------------------------------------------------------------------
\* Health and the life of the reader loop
\* ------------------------------------------------------------------------
\* The last step answered a GET /health.
HealthAnswered == reply # None /\ reply[1].kind = "health"

C18_InitFailureDegraded ==
    ~sensor_ok =>
        /\ ~state.last_read_ok
        /\ \A f \in ValueFields : state[f] = None
        /\ state.error # None
        /\ resp # None => /\ ~resp[1].last_read_ok
                          /\ \A f \in ValueFields : resp[1][f] = None
                          /\ resp[1].error # None
        /\ result \in {"none", "Failure"}
        /\ pc = "sleep" => result = "Failure"
        /\ HealthAnswered => reply[1].status = "degraded"
        /\ pc # "top" => ENABLED (ReadTemperature \/ ExceptError \/ ExceptFlag \/ PollSleep)

\* Without a sensor, two poll cycles have failed on the attribute read and
\* /health has just answered "degraded".
C18_Witness ==
    /\ ~sensor_ok
    /\ failStreak = 2
    /\ state.error = Some("read_error: AttributeError")
    /\ HealthAnswered
    /\ reply[1].status = "degraded"

\* C19: the reader never stops.  A poll cycle that has begun ends, in
\* Success or in Failure whatever was raised, in the sleep of the poll
\* interval and the reader returns to the top of its loop; from there it
\* begins the next cycle; and after a failed cycle the reads of the next
\* cycle can still succeed.
C19_ReaderNeverStops ==
    /\ [](pc \in {"top", "read_temp", "read_hum", "retry_sleep", "update", "alert",
                  "except", "except_flag", "sleep"})
    /\ [](pc = "sleep" => result \in {"Success", "Failure"})
    /\ (pc # "top") ~> (pc = "sleep")
    /\ (pc = "sleep") ~> (pc = "top")
    /\ \A n \in 0..(MaxCycles - 1) : (pc = "top" /\ cycle = n) ~> (cycle = n + 1)
    /\ []((sensor_ok /\ failStreak > 0 /\ pc = "read_temp")
            => ENABLED (ReadTemperature /\ pc' = "read_hum"))

\* A cycle that failed on a RuntimeError is followed by a cycle that
\* succeeds and sets last_read_ok again.
C19_Witness ==
    /\ before.error = Some("read_error: RuntimeError")
    /\ ~before.last_read_ok
    /\ result = "Success"
    /\ state.last_read_ok
    /\ state.error = None
    /\ pc = "sleep"

\* ------------------------------------------------------------------------
\* Client: a poll whose fetch fails
\* ------------------------------------------------------------------------
\* C20: an iteration of the client loop whose fetch fails calls neither
\* buzzer.on() nor the LED update and leaves last_buzz_time, last_log_time
\* and every LED level as they were; the next iteration starts when the
\* fetch has returned and the poll interval has been slept.
C20_FailedFetchSkipped ==
    [][(clock' # clock /\ ~last'.fetched)
        => /\ last_buzz_time' = last_buzz_time
           /\ last_log_time' = last_log_time
           /\ led' = led
           /\ onAt' = onAt
           /\ ~last'.buzzed
           /\ clock' = clock + (slowFetches' - slowFetches) + POLL_INTERVAL]_vars

\* A fetch fails after the buzzer has fired and the heater LED was lit:
\* the LED is still lit, both timers are as the firing left them, and the
\* next poll is due one poll interval later.
C20_Witness ==
    /\ ~last.fetched
    /\ last.now > StartTime
    /\ ~last.buzzed
    /\ led["heat"]
    /\ onAt # None
    /\ last_buzz_time = StartTime
    /\ last_buzz_time = last.last_before
    /\ last_log_time = StartTime
    /\ clock = last.now + POLL_INTERVAL

\* ------------------------------------------------------------------------
\* Client: firing, suppression and the LED mirror
\* ------------------------------------------------------------------------
\* C21: an iteration whose alert is active while the buzzer has not fired
\* since the client started (last_buzz_time is still 0) actuates in that
\* iteration, however long the client has been running, and records the
\* iteration's time.
C21_NeverFiredActuatesAtOnce ==
    (last.fetched /\ last.alert /\ last.last_before = 0)
    => /\ last.buzzed
       /\ onAt # None /\ onAt[1] >= last.now
       /\ prevOnAt = None
       /\ last_buzz_time = last.now

\* The first alert comes after the client has run for a while without one:
\* it actuates in that iteration.
C21_Witness ==
    /\ last.fetched /\ last.alert /\ last.buzzed
    /\ last.last_before = 0
    /\ last.now >= StartTime + POLL_INTERVAL
    /\ prevOnAt = None

\* C22: where LED indicators exist (the client is not headless), at the end
\* of every iteration whose fetch succeeded each device's LED level equals
\* the device's flag in the fetched body, off when the body has no such
\* key, whether the iteration raised no alert, actuated or was suppressed
\* by the cooldown.
C22_LedMirrorsFlag ==
    (last.fetched /\ ~headless)
    => /\ last.flags # None
       /\ \A d \in DEVICES : led[d] = last.flags[1][d]

\* After an actuation, a body without device flags is fetched and its
\* alert is suppressed by the cooldown: both LEDs are off.
C22_Witness ==
    /\ ~headless
    /\ last.fetched /\ last.alert /\ ~last.buzzed
    /\ last.flags = Some([d \in DEVICES |-> FALSE])
    /\ led = [d \in DEVICES |-> FALSE]
    /\ last.now > StartTime + ActuationTime

\* The reading of a body is inside the thresholds (a null humidity is not
\* judged).
InRange(data) ==
    /\ data.temperature_f # None
    /\ TEMP_LOW_THRESHOLD <= data.temperature_f[1]
    /\ data.temperature_f[1] <= TEMP_HIGH_THRESHOLD
    /\ data.humidity # None =>
          /\ HUMIDITY_LOW_THRESHOLD <= data.humidity[1]
          /\ data.humidity[1] <= HUMIDITY_HIGH_THRESHOLD

\* C23: two bodies that agree on temperature_f and humidity get the same
\* decision at the same time with the same last_buzz_time, whatever their
\* alert, error and last_read_ok fields; so a body with a server alert and
\* an in-range reading never actuates, and a body with last_read_ok false
\* and a stale reading outside the thresholds actuates once the cooldown
\* has elapsed.
C23_DecisionIgnoresServerFields ==
    verdicts # None =>
        LET p == pair[1]
            v == verdicts[1]
        IN  /\ (p.a.temperature_f = p.b.temperature_f /\ p.a.humidity = p.b.humidity)
                => v.a = v.b
            /\ (p.a.alert # None /\ InRange(p.a)) => ~v.a
            /\ (/\ ~p.a.last_read_ok
                /\ p.a.temperature_f # None
                /\ ~InRange(p.a)
                /\ p.current_time - p.last_time >= BUZZ_COOLDOWN) => v.a

\* At the end of the cooldown, a stale 90 F reading with last_read_ok false
\* and no server alert, and the same reading reported fresh with an alert:
\* both actuate.
C23_Witness ==
    /\ verdicts = Some([a |-> TRUE, b |-> TRUE])
    /\ pair[1].a.temperature_f = Some(900000)
    /\ ~pair[1].a.last_read_ok /\ pair[1].a.error # None /\ pair[1].a.alert = None
    /\ pair[1].b.last_read_ok /\ pair[1].b.error = None /\ pair[1].b.alert # None
    /\ pair[1].last_time = StartTime
    /\ pair[1].current_time = StartTime + BUZZ_COOLDOWN

\* ------------------------------------------------------------------------
\* Reader: exceptions other than the transient one, and the read attempt
\* ------------------------------------------------------------------------
\* C24: a read that raises anything but OSError is the last read of its
\* poll cycle: no attempt and no retry sleep follows it, and the cycle ends
\* in Failure with error naming the exception, last_read_ok false, and the
\* reading and the alert as they were when the cycle began.
C24_OtherExceptionEndsCycle ==
    /\ \A i \in 1..Len(log) :
          log[i] \notin {"OSError", "ok"}
          => /\ i = Len(log)
             /\ pc \in {"except", "except_flag", "sleep", "top"}
             /\ exc = Some(log[i])
             /\ sleeps = i - 1
    /\ (result = "Failure" /\ exc # Some("OSError"))
       => /\ log[Len(log)] = exc[1]
          /\ state.error = Some("read_error: " \o exc[1])
          /\ ~state.last_read_ok
          /\ \A f \in ValueFields : state[f] = before[f]

\* After a successful cycle, a cycle whose first attempt raised OSError and
\* whose second raised RuntimeError has failed after one sleep.
C24_Witness ==
    /\ result = "Failure"
    /\ log = <<"OSError", "RuntimeError">>
    /\ sleeps = 1
    /\ state.error = Some("read_error: RuntimeError")
    /\ lastGood.temperature_f # None
    /\ state.temperature_f = lastGood.temperature_f

\* ------------------------------------------------------------------------
\* api.py: POST /control/<device> handled by request threads that run at
\* the same time (app.run serves each request in a thread of its own)
\* ------------------------------------------------------------------------
readerVars == <<sensor_ok, pc, attempt, rd_temp_c, rd_humidity, exc, cycle,
                readerHistory, readAt>>

\* What a request thread answers.
ThreadAnswer(t, status, value) ==
    Some([kind |-> "thread", thread |-> t, device |-> handlers[t].device,
          on |-> handlers[t].on, status |-> status, value |-> value])

\* The request of thread t passed the checks before the try block and
\* stands before GPIO.output: device is configured, the text is "on" or "off".
set_device_accept(t) ==
    /\ handlers[t].pc = "idle"
    /\ UNCHANGED <<evalVars, clientVars>>
    /\ \E device \in {d \in DeviceNames : valid_device(d)}, on \in BOOLEAN :
          handlers' = [handlers EXCEPT ![t] = [pc |-> "gpio", device |-> device,
                                               on |-> on]]
    /\ resp' = None
    /\ views' = {}
    /\ reply' = None
    /\ UNCHANGED <<state, relay, lastCmd, readerVars>>

\* GPIO.output(device_pins["relay"], GPIO.HIGH or GPIO.LOW): the pin is
\* driven, or the call raises and `except Exception` answers 500.
set_device_output(t) ==
    /\ handlers[t].pc = "gpio"
    /\ UNCHANGED <<evalVars, clientVars>>
    /\ \/ /\ relay' = [relay EXCEPT ![handlers[t].device] = handlers[t].on]
          /\ handlers' = [handlers EXCEPT ![t].pc = "flag"]
          /\ reply' = None
       \/ /\ handlers' = [handlers EXCEPT ![t] = IdleHandler]
          /\ reply' = ThreadAnswer(t, 500, None)
          /\ UNCHANGED relay
    /\ resp' = None
    /\ views' = {}
    /\ UNCHANGED <<state, lastCmd, readerVars>>

\* state[state_key] = True or False
set_device_store(t) ==
    /\ handlers[t].pc = "flag"
    /\ UNCHANGED <<evalVars, clientVars>>
    /\ state' = Put(state, state_key(handlers[t].device), handlers[t].on)
    /\ lastCmd' = [lastCmd EXCEPT ![handlers[t].device] = handlers[t].on]
    /\ handlers' = [handlers EXCEPT ![t].pc = "return"]
    /\ resp' = None
    /\ views' = {}
    /\ reply' = None
    /\ UNCHANGED <<relay, readerVars>>

\* return jsonify({"status": "success", state_key: state[state_key], ...})
set_device_return(t) ==
    /\ handlers[t].pc = "return"
    /\ UNCHANGED <<evalVars, clientVars>>
    /\ reply' = ThreadAnswer(t, 200, Some(state[state_key(handlers[t].device)]))
    /\ handlers' = [handlers EXCEPT ![t] = IdleHandler]
    /\ resp' = None
    /\ views' = {}
    /\ UNCHANGED <<state, relay, lastCmd, readerVars>>

ConcurrentNext ==
    \/ \E t \in Threads : set_device_accept(t)
    \/ \E t \in Threads : set_device_output(t)
    \/ \E t \in Threads : set_device_store(t)
    \/ \E t \in Threads : set_device_return(t)
    \/ get_sensor

SpecConcurrent == Init /\ [][ConcurrentNext]_vars

AllCompleted == \A t \in Threads : handlers[t].pc = "idle"

\* C25: once every control request in flight has completed, each device's
\* flag agrees with the level of its relay.
C25_FlagAgreesWithRelay ==
    AllCompleted => \A d \in DEVICES : state[state_key(d)] = relay[d]

\* ------------------------------------------------------------------------
\* Frame specification: the reader thread, statement by statement, while
\* one control request per device is handled in a thread of its own
\* ------------------------------------------------------------------------
\* The thread that serves the requests for one device.
DeviceOfThread(t) == IF t = 1 THEN "heat" ELSE "pump"

FrameThreads == {t \in Threads : t <= Cardinality(DEVICES)}

\* Poll cycles run while the control requests are handled.
MaxFrameCycles == 1

FrameNext ==
    \/ ReaderStep /\ cycle' <= MaxFrameCycles
    \/ \E t \in FrameThreads :
          set_device_accept(t) /\ handlers'[t].device = DeviceOfThread(t)
    \/ \E t \in FrameThreads : set_device_output(t)
    \/ \E t \in FrameThreads : set_device_store(t)
    \/ \E t \in FrameThreads : set_device_return(t)

SpecFrame == Init /\ [][FrameNext]_vars

\* The device flags of the shared state.
FlagPart(s) == [d \in DEVICES |-> s[state_key(d)]]

\* The device a thread's step is about.
DeviceAt(t) == IF handlers[t].pc = "idle" THEN handlers'[t].device
                                         ELSE handlers[t].device

\* A step of the reader leaves flags and relays alone; a step of a request
\* thread leaves the reading fields and every other device alone.
FrameStep ==
    /\ pc' # pc => FlagPart(state') = FlagPart(state) /\ relay' = relay
    /\ \A t \in Threads :
          handlers'[t] # handlers[t]
          => /\ ReadingPart(state') = ReadingPart(state)
             /\ \A d \in DEVICES \ {DeviceAt(t)} :
                   /\ state'[state_key(d)] = state[state_key(d)]
                   /\ relay'[d] = relay[d]

\* The answer of a request thread that drove its device.
ThreadAnswered == reply # None /\ reply[1].kind = "thread" /\ reply[1].status = 200

\* Every accepted flag update and every reading update is in the state.
NoLostUpdate ==
    /\ \A d \in DEVICES : state[state_key(d)] = lastCmd[d]
    /\ ThreadAnswered
       => /\ state[state_key(reply[1].device)] = reply[1].on
          /\ reply[1].value = Some(reply[1].on)
    /\ (result = "Success" /\ pc \in {"sleep", "top"})
       => /\ state.temperature_c = Some(Round2(rd_temp_c[1]))
          /\ state.temperature_f = Some(Round2(TempF(rd_temp_c[1])))
          /\ state.humidity = Some(Round2(rd_humidity[1]))
          /\ state.error = None
          /\ state.last_read_ok
          /\ state.alert = compute_alert(Some(TempF(rd_temp_c[1])), rd_humidity)
    /\ (result = "Failure" /\ pc \in {"sleep", "top"})
       => /\ state.error = Some("read_error: " \o exc[1])
          /\ ~state.last_read_ok
          /\ ValuePart(state) = ValuePart(before)

\* C26: a reader step never changes a device flag or a relay, a step of a
\* control request never changes the reading, error, last_read_ok or alert
\* fields nor another device's flag or relay, and under every interleaving
\* of the reader with control requests for distinct devices every accepted
\* flag update and every reading update is in the state.
C26_FramesAndNoLostUpdate == [][FrameStep]_vars /\ []NoLostUpdate

\* A request thread answers 200 between the reader's state.update and its
\* alert store, while the request for the other device stands before its
\* flag store.
C26_Witness ==
    /\ ThreadAnswered
    /\ pc = "alert"
    /\ \E t \in FrameThreads : handlers[t].pc = "flag"

\* C27: a client cycle that does not actuate (no alert, an alert within
\* the cooldown, or a failed fetch) leaves last_buzz_time as it found it,
\* so each firing finds in last_buzz_time the cycle time of the firing
\* before it, whatever was suppressed in between.
C27_QuietCycleKeepsLastFired ==
    /\ ~last.buzzed => last_buzz_time = last.last_before
    /\ (last.buzzed /\ prevOnAt # None)
       => /\ prevOnAt[1] - last.last_before \in {0, 1}
          /\ last_buzz_time = last.now

\* An alert is suppressed within one poll of the end of the cooldown that
\* an earlier firing started.
C27_Witness ==
    /\ last.fetched /\ last.alert /\ ~last.buzzed
    /\ last_buzz_time # 0
    /\ last.now - last_buzz_time >= BUZZ_COOLDOWN - POLL_INTERVAL - 1

\* The longest time from the start of one suppressed iteration to the
\* start of the next: a slow fetch and the poll sleep.
LongestQuietCycle == 1 + POLL_INTERVAL

\* C28: while every fetch succeeds with an active alert, every iteration
\* whose time is at least last_buzz_time + BUZZ_COOLDOWN actuates, a firing
\* comes no later than the first such iteration, and every first firing is
\* followed by a second one: the alert is never suppressed for ever.
C28_PersistentAlertFiresAgain ==
    /\ [](last.now - last.last_before >= BUZZ_COOLDOWN => last.buzzed)
    /\ []((last.buzzed /\ prevOnAt # None)
          => last.now - last.last_before < BUZZ_COOLDOWN + LongestQuietCycle)
    /\ (onAt # None /\ prevOnAt = None) ~> (prevOnAt # None)

\* The second firing of a persistent alert, in the first iteration after
\* the cooldown ran out, which began later than the cooldown's end.
C28_Witness ==
    /\ last.fetched /\ last.alert /\ last.buzzed
    /\ prevOnAt # None
    /\ last.now - last.last_before > BUZZ_COOLDOWN

\* ------------------------------------------------------------------------
\* Reader: the stored pair and the stored alert
\* ------------------------------------------------------------------------
\* C29: temperature and humidity are read in the same attempt: the humidity
\* read always follows a temperature read of its own attempt, also after a
\* temperature was read and its humidity read raised; a successful cycle
\* stores the pair of its last attempt, and a failed cycle stores neither
\* value.
C29_PairFromOneAttempt ==
    /\ pc = "read_hum" => readAt.temp = Some(attempt)
    /\ pc \in {"update", "alert"}
       => readAt.temp = Some(attempt) /\ readAt.hum = Some(attempt)
    /\ (result = "Success" /\ pc \in {"sleep", "top"})
       => /\ readAt.temp = Some(attempt) /\ readAt.hum = Some(attempt)
          /\ state.temperature_c = Some(Round2(rd_temp_c[1]))
          /\ state.temperature_f = Some(Round2(TempF(rd_temp_c[1])))
          /\ state.humidity = Some(Round2(rd_humidity[1]))
    /\ (result = "Failure" /\ pc \in {"sleep", "top"})
       => /\ state.temperature_c = before.temperature_c
          /\ state.temperature_f = before.temperature_f
          /\ state.humidity = before.humidity

\* A cycle succeeded on a retry after an attempt whose temperature read
\* returned and whose humidity read raised OSError.
C29_Witness ==
    /\ result = "Success" /\ pc = "sleep"
    /\ readAt.lone
    /\ attempt >= 1
    /\ readAt.temp = Some(attempt) /\ readAt.hum = Some(attempt)

\* What the client computes from the body of GET /sensor: check_alert on
\* the stored temperature_f and humidity.
client_view(s) == check_alert(s.temperature_f, s.humidity).alert_triggered

\* C30: once a successful cycle has completed, the stored alert is set
\* exactly when check_alert applied to the stored, rounded temperature_f
\* and humidity raises an alert.
C30_StoredAlertMatchesStoredValues ==
    (result = "Success" /\ pc \in {"sleep", "top"})
    => (state.alert # None <=> client_view(state))

\* ------------------------------------------------------------------------
\* hermie_api.py: compute_alert, the evaluator of the server variant
\* without device control, next to common.check_alert
\* ------------------------------------------------------------------------
\* hermie_api.compute_alert(temp_f, humidity) with the thresholds of
\* common.py in place of those it imports from constants.py: None, or the
\* f-string with its kind prefix, formatted value and threshold.
hermie_api_compute_alert(temp_f, humidity) ==
    IF temp_f = None THEN None
    ELSE IF temp_f[1] > TEMP_HIGH_THRESHOLD THEN
        Some([kind |-> "high_temp", value |-> Fmt1(temp_f[1]),
              threshold |-> TEMP_HIGH_THRESHOLD])
    ELSE IF temp_f[1] < TEMP_LOW_THRESHOLD THEN
        Some([kind |-> "low_temp", value |-> Fmt1(temp_f[1]),
              threshold |-> TEMP_LOW_THRESHOLD])
    ELSE IF humidity # None /\ humidity[1] < HUMIDITY_LOW_THRESHOLD THEN
        Some([kind |-> "low_humidity", value |-> Fmt1(humidity[1]),
              threshold |-> HUMIDITY_LOW_THRESHOLD])
    ELSE None

\* The kind of alert a message of check_alert names.
KindOfText(text) ==
    CASE text = "Temperature exceeds" -> "high_temp"
      [] text = "Temperature below" -> "low_temp"
      [] text = "Humidity exceeds" -> "high_humidity"
      [] text = "Humidity below" -> "low_humidity"

\* The kind of alert check_alert returned, "none" without an alert.
check_alert_kind(r) ==
    IF r.alert_triggered THEN KindOfText(r.alert_message[1].text) ELSE "none"

\* The kind of alert hermie_api.compute_alert returned.
hermie_api_kind(a) == IF a = None THEN "none" ELSE a[1].kind

\* Both evaluators are called with the same arguments.
EvaluateBoth ==
    /\ ret = None
    /\ ret' = Some(check_alert(arg_temp_f, arg_humidity))
    /\ verdicts' = Some([hermie_api |-> hermie_api_compute_alert(arg_temp_f,
                                                                 arg_humidity)])
    /\ UNCHANGED <<arg_temp_f, arg_humidity, pair, serverVars, clientVars>>

\* The next pair of calls, with other arguments.
CallBoth ==
    /\ ret # None
    /\ arg_temp_f' \in TempFArgs
    /\ arg_humidity' \in HumidityArgs
    /\ ret' = None
    /\ verdicts' = None
    /\ UNCHANGED <<pair, serverVars, clientVars>>

VariantsNext == EvaluateBoth \/ CallBoth

SpecVariants == EvalInit /\ [][VariantsNext]_vars

\* C31: with the same thresholds, hermie_api.compute_alert and
\* common.check_alert agree for every temp_f and humidity, None included,
\* on whether an alert is raised and on its kind.
C31_VariantsAgree ==
    (ret # None /\ verdicts # None)
    => check_alert_kind(ret[1]) = hermie_api_kind(verdicts[1].hermie_api)

\* ------------------------------------------------------------------------
\* End to end: control requests change the device flags of api.py while
\* client.py polls GET /sensor and mirrors the flags to its LEDs
\* ------------------------------------------------------------------------
\* Seconds of client run time in which iterations begin while control
\* requests are served: an actuation and a few polls.
MaxPollTime == 35

\* The request thread whose control requests are followed to the LEDs.
ControlThread == 1

\* The reading the sensor returns while control requests are followed:
\* 20.0 C, which is below the low threshold, and 80.003 %.
ColdReading == [temp_c |-> 200000, humidity |-> 800030]

\* A poll cycle of the reader that reads ColdReading.
ReadCold ==
    /\ reader_cycle
    /\ cycle' <= MaxFrameCycles
    /\ rd_temp_c' = Some(ColdReading.temp_c)
    /\ rd_humidity' = Some(ColdReading.humidity)

\* While control requests are followed, get_sensor_data() returns within
\* the second in which it was called.
PollFetchTimes == {0}

\* An iteration of main() whose get_sensor_data() returned None.
PollFails ==
    /\ FetchFails
    /\ clock - StartTime <= MaxPollTime
    /\ slowFetches' - slowFetches \in PollFetchTimes

\* An iteration of main() whose get_sensor_data() returned, after d
\* seconds, the body that get_sensor of api.py made of the shared state.
PollServer ==
    /\ clock - StartTime <= MaxPollTime
    /\ resp' = Some(state)
    /\ views' = ConsistentViews
    /\ reply' = None
    /\ \E d \in PollFetchTimes :
        LET data == state
            current_time == clock
            alert_triggered == local_alert(data)
            buzz == decide(data, current_time, last_buzz_time)
        IN  /\ slowFetches' = slowFetches + d
            /\ IF buzz
               THEN /\ prevOnAt' = onAt
                    /\ onAt' = Some(current_time + d)
                    /\ last_buzz_time' = current_time
                    /\ clock' = clock + d + ActuationTime + POLL_INTERVAL
               ELSE /\ UNCHANGED <<prevOnAt, onAt, last_buzz_time>>
                    /\ clock' = clock + d + POLL_INTERVAL
            /\ led' = update_leds(data)
            /\ last_log_time' = IF current_time - last_log_time >= BUZZ_COOLDOWN
                                THEN current_time ELSE last_log_time
            /\ last' = [fetched |-> TRUE, alert |-> alert_triggered,
                        now |-> current_time, last_before |-> last_buzz_time,
                        buzzed |-> buzz, flags |-> FetchedFlags(data)]
    /\ UNCHANGED <<headless, failedFetches, quietPolls>>
    /\ UNCHANGED <<state, relay, lastCmd, handlers, readerVars>>
    /\ UNCHANGED evalVars

\* main(): one iteration of its loop.
ClientLoop == PollFails \/ PollServer

EndToEndNext ==
    \/ ReadCold
    \/ set_device_accept(ControlThread)
    \/ set_device_output(ControlThread)
    \/ set_device_store(ControlThread)
    \/ set_device_return(ControlThread)
    \/ PollFails
    \/ PollServer

\* The client runs with its LED indicators (not headless).
EndToEndInit == ClientSpecInit /\ ~headless

\* main() loops for ever: its next iteration is always taken.  The server
\* owes no step.
SpecEndToEnd == EndToEndInit /\ [][EndToEndNext]_vars /\ WF_vars(ClientLoop)

\* The LED of device d shows the server's flag of d.
LedShowsFlag(d) == led[d] = state[state_key(d)]

\* The client can still begin an iteration after every fetch that may fail.
PollsAhead == clock - StartTime <= MaxPollTime - MaxQuietCycles * LongestQuietCycle

\* A step that takes the LED of a device away from its flag stores the flag.
LedLeavesFlagOnlyByRequest ==
    \A d \in DEVICES :
        (LedShowsFlag(d) /\ led'[d] # state'[state_key(d)])
        => /\ state'[state_key(d)] # state[state_key(d)]
           /\ handlers[ControlThread].pc = "flag"
           /\ handlers[ControlThread].device = d

====
